---- MODULE Spec2Model ----
(***************************************************************************)
(* Cross-context command dispatch and recorder state machine of the        *)
(* Whispering browser extension (apps/extension/lib/utils/commands.ts).    *)
(*                                                                         *)
(* Each invocation of a command is a cooperative task: it runs from one    *)
(* suspension point (an awaited platform call) to the next in one atomic   *)
(* step.  Two invocation slots allow two invocations to overlap.           *)
(*                                                                         *)
(* An Effect ends in one of three ways, kept apart in the "res" field:     *)
(*   "ok"                    success                                       *)
(*   "InvokeCommandError", "ExtensionStorageError", "RecorderError"        *)
(*                           a typed failure (the error channel)           *)
(*   "defect"                an untyped fault: a rejected promise under    *)
(*                           Effect.promise or an exception thrown in a    *)
(*                           generator body; Effect.catchAll and           *)
(*                           Effect.mapError do not see it                 *)
(***************************************************************************)
EXTENDS Naturals, Sequences, FiniteSets, TLC

VARIABLES
  recorderState,  \* value held by RecorderStateService (extension storage)
  capturing,      \* RecorderService: an audio capture is in flight
  localStorage,   \* item 'whispering-settings' of the Whispering page
  tabs,           \* open pages matching http://localhost:5173/*, in query order
  nextTabId,      \* id the browser gives to the next created tab
  devices,        \* result of enumerateRecordingDevices (device ids, in order)
  micOk,          \* whether the platform lets a capture start
  inv,            \* the invocation slots
  calls,          \* number of invocations started so far
  closes,         \* number of pages closed by the user so far
  lastLoc,        \* the most recently completed getOrCreateWhisperingTabId call
  activeTabs,     \* answer of chrome.tabs.query({active, currentWindow})
  toastItem,      \* extension storage item 'whispering-toast'
  optionsOpen,    \* the options page has been opened
  appRecorderState, \* recorderState.value of the app (./recorder.svelte)
  recordings,     \* the `recordings` list of the app's recordings store
  recordingsDb,   \* what RecordingsDbService holds
  tr,             \* the transcribeRecording calls of the app
  appCalls        \* transcribeRecording calls and recorder toggles so far

vars == <<recorderState, capturing, localStorage, tabs, nextTabId, devices,
          micOk, inv, calls, closes, lastLoc, activeTabs, toastItem,
          optionsOpen, appRecorderState, recordings, recordingsDb, tr,
          appCalls>>

\* What only the handlers of the background and the toast command touch.
tableVars == <<activeTabs, toastItem, optionsOpen>>

\* The state of the app's recordings store (recordings.svelte.ts).
appVars == <<appRecorderState, recordings, recordingsDb, tr, appCalls>>

\* The state of the extension's commands (commands.ts).
extVars == <<recorderState, capturing, localStorage, tabs, nextTabId, devices,
             micOk, inv, calls, closes, lastLoc, activeTabs, toastItem,
             optionsOpen>>

(***************************************************************************)
(* Bounds of the model.                                                    *)
(***************************************************************************)
MaxCalls == 3
MaxCloses == 1
MaxTableCalls == 2
MaxTranscribes == 2
MaxToggles == 2

Slots == {1, 2}

(***************************************************************************)
(* Data.                                                                   *)
(***************************************************************************)
\* RecorderState of the shared package: the switch of toggleRecording knows
\* IDLE and RECORDING; LOADING is a stored value that is neither.
RecorderStates == {"IDLE", "RECORDING", "LOADING"}

\* chrome.tabs.Tab.id is optional; NoId stands for an absent id.
NoId == 0

\* defaultValue of getSettings.runInWhisperingContentScript
DefaultSettings ==
  [isPlaySoundEnabled |-> TRUE,
   isCopyToClipboardEnabled |-> TRUE,
   isPasteContentsOnSuccessEnabled |-> TRUE,
   selectedAudioInputDeviceId |-> "",
   currentLocalShortcut |-> "space",
   currentGlobalShortcut |-> "",
   apiKey |-> "",
   outputLanguage |-> "en"]

\* Documents conforming to settingsSchema that the model stores and writes.
SettingsDocs ==
  {[DefaultSettings EXCEPT !.apiKey = k, !.isPlaySoundEnabled = s,
                           !.selectedAudioInputDeviceId = d,
                           !.outputLanguage = l] :
     k \in {"", "sk-key"}, s \in BOOLEAN, d \in {"mic1", "gone"},
     l \in {"en"}}

SettingsKeys == DOMAIN DefaultSettings

\* The z.boolean() fields of settingsSchema; the others are z.string().
BoolKeys == {"isPlaySoundEnabled", "isCopyToClipboardEnabled",
             "isPasteContentsOnSuccessEnabled"}

\* A variant of JSON.stringify that leaves out members whose value is ''.
stringifyNonEmpty(settings) ==
  [k \in {j \in SettingsKeys : j \in BoolKeys \/ settings[j] # ""} |->
     IF k \in BoolKeys
       THEN [t |-> "bool", v |-> IF settings[k] THEN "true" ELSE "false"]
       ELSE [t |-> "string", v |-> settings[k]]]

\* JSON.stringify(settings): the text of an object, one member per field,
\* each value a JSON token (true/false, or a string).
stringify(settings) ==
  [k \in SettingsKeys |->
     IF k \in BoolKeys
       THEN [t |-> "bool", v |-> IF settings[k] THEN "true" ELSE "false"]
       ELSE [t |-> "string", v |-> settings[k]]]

\* JSON texts that settingsSchema rejects: a flag stored as a string.
InvalidTexts ==
  {[stringify(DefaultSettings) EXCEPT
      !["isPlaySoundEnabled"] = [t |-> "string", v |-> "yes"]]}

\* What localStorage.getItem('whispering-settings') can hold: nothing
\* ("missing"), text JSON.parse rejects ("corrupt"), or a JSON text
\* ("json"), which settingsSchema accepts or rejects.
StorageItems ==
  {[kind |-> k, text |-> stringify(DefaultSettings)] : k \in {"missing", "corrupt"}}
  \cup {[kind |-> "json", text |-> stringify(d)] : d \in SettingsDocs}
  \cup {[kind |-> "json", text |-> t] : t \in InvalidTexts}

\* A variant of the literal that carries a credential.
ToggleSettingsWithKey ==
  [apiKey |-> "sk-key", selectedAudioInputDeviceId |-> "", isPlaySoundEnabled |-> TRUE]

\* The settings literal of toggleRecording.runInGlobalContentScript.
ToggleSettings ==
  [apiKey |-> "", selectedAudioInputDeviceId |-> "", isPlaySoundEnabled |-> TRUE]

Tab(id, pinned, active, made) ==
  [id |-> id, pinned |-> pinned, active |-> active, made |-> made]

\* Pages open before the extension acts (opened by the user, made = FALSE).
InitialTabs ==
  {<<>>,
   <<Tab(1, FALSE, TRUE, FALSE)>>,
   <<Tab(1, TRUE, FALSE, FALSE)>>,
   <<Tab(NoId, TRUE, FALSE, FALSE)>>,
   <<Tab(1, FALSE, TRUE, FALSE), Tab(2, TRUE, FALSE, FALSE)>>,
   <<Tab(1, TRUE, FALSE, FALSE), Tab(2, FALSE, TRUE, FALSE)>>,
   <<Tab(1, FALSE, TRUE, FALSE), Tab(2, FALSE, FALSE, FALSE)>>}

\* The audio platform: the enumerated input devices and whether a capture
\* can be started.
Platforms == {[devices |-> <<"mic2", "mic1">>, micOk |-> TRUE],
              [devices |-> <<"mic2", "mic1">>, micOk |-> FALSE],
              [devices |-> <<>>, micOk |-> TRUE]}

NoLoc == [done |-> FALSE, seen |-> <<>>, made |-> FALSE, res |-> "none",
          id |-> NoId, after |-> <<>>]

\* An invocation slot.  The fields after "ret" record what the invocation
\* has done so far; they are read by the properties only.
FreshInv(cmd, pc, before, persisted, overlapped) ==
  [cmd |-> cmd, pc |-> pc, ret |-> "none",
   ctx |-> "GlobalContentScript",  \* execution context of the caller
   res |-> "pending",
   item0 |-> localStorage,     \* the stored settings item when invoked
   before |-> before,          \* stored recorder state when invoked
   persisted |-> persisted,    \* persisted settings document when invoked
   overlapped |-> overlapped,  \* another invocation was in flight meanwhile
   seen |-> <<>>,              \* tabs the last chrome.tabs.query returned
   tabId |-> NoId,             \* id the last peer lookup resolved to
   loc |-> NoLoc,              \* the last completed peer lookup
   prevLoc |-> NoLoc,          \* lastLoc when that lookup queried
   settings |-> DefaultSettings, \* last value a getSettings shim returned
   msg |-> "none",             \* commandName of the message a shim sends
   arg |-> DefaultSettings,    \* argument of a pending setSettings shim
   fbFailed |-> FALSE,         \* device fallback ended in a discarded failure
   readState |-> "none",       \* value recorderStateService.get() returned
   opened |-> 0,               \* openOptionsPage messages sent
   alerts |-> 0,               \* alert() prompts shown
   starts |-> 0, stops |-> 0, cancels |-> 0,  \* RecorderService requests
   startedOn |-> "none",       \* device id passed to startRecording
   cues |-> <<>>,              \* feedback sounds played, in order
   stateWrites |-> 0,          \* successful recorderStateService.set calls
   settingsWrites |-> 0,       \* setSettings messages sent
   lookups |-> 0,              \* peer lookups begun
   sends |-> 0,                \* messages sent to the resolved peer
   sentName |-> "none",        \* commandName of the last message sent
   sentTo |-> "none",          \* context the last message was sent to
   stored |-> FALSE]           \* the last setSettings replaced the item

IdleInv == FreshInv("none", "idle", "IDLE", DefaultSettings, FALSE)

Active(s) == inv[s].pc \notin {"idle", "done"}

(***************************************************************************)
(* Data of the app's recordings store.                                     *)
(***************************************************************************)
\* Concurrent transcribeRecording calls.
Procs == {1, 2}

\* Recording ids a caller passes; "b" is not in the database at first.
RecIds == {"a", "b"}

Recording(status, text) == [transcriptionStatus |-> status, transcribedText |-> text]

\* Option.none() of recordingsDb.getRecording
NoRecording == Recording("none", "")

\* Texts transcriptionService.transcribe answers with.
Transcripts == {"", "hello"}

\* A transcribeRecording call: its position, its id, the recording it
\* read, and what it has done (read by the properties only).
IdleTr == [pc |-> "idle", id |-> "a", recording |-> NoRecording,
           text |-> "", out |-> "none",
           notified |-> FALSE,    \* the 'Transcribing recording...' notification
           synced |-> FALSE,      \* the Effect.sync of the final Effect.all ran
           updated |-> FALSE,     \* its updateRecording(DONE) succeeded
           setLoading |-> FALSE,  \* the call assigned LOADING
           setIdle |-> FALSE]     \* the call assigned IDLE

AppInit ==
  /\ appRecorderState = "IDLE"
  /\ recordingsDb = [i \in RecIds |-> IF i = "a" THEN Recording("UNPROCESSED", "")
                                                 ELSE NoRecording]
  /\ recordings = recordingsDb
  /\ tr = [p \in Procs |-> IdleTr]
  /\ appCalls = [transcribes |-> 0, toggles |-> 0]

Init ==
  /\ AppInit
  /\ recorderState \in RecorderStates
  /\ capturing = (recorderState = "RECORDING")
  /\ localStorage \in StorageItems
  /\ tabs \in InitialTabs
  /\ nextTabId = 3
  /\ \E p \in Platforms : devices = p.devices /\ micOk = p.micOk
  /\ inv = [s \in Slots |-> IdleInv]
  /\ calls = 0
  /\ closes = 0
  /\ lastLoc = NoLoc
  /\ activeTabs = <<[id |-> 7]>>
  /\ toastItem = "none"
  /\ optionsOpen = FALSE

Put(s, r) == inv' = [inv EXCEPT ![s] = r]

Done(r, res) == [r EXCEPT !.pc = "done", !.res = res]

(***************************************************************************)
(* getLocalStorage / setLocalStorage, as run in the Whispering page.       *)
(***************************************************************************)
\* schema.parse(object) succeeds when every field is there with its type.
conforms(obj) ==
  \A k \in SettingsKeys :
    /\ k \in DOMAIN obj
    /\ obj[k].t = IF k \in BoolKeys THEN "bool" ELSE "string"

\* The document schema.parse returns: the schema's fields, decoded.
schemaParse(obj) ==
  [k \in SettingsKeys |-> IF k \in BoolKeys THEN obj[k].v = "true" ELSE obj[k].v]

\* A variant without the schema check: whatever was stored is decoded.
getLocalStorageUnchecked(item, defaultValue) ==
  IF item.kind = "missing" THEN defaultValue
  ELSE IF item.kind = "corrupt" THEN defaultValue
  ELSE schemaParse(item.text)

\* getItem === null returns the default; a throw of JSON.parse or of
\* schema.parse is caught (Effect.catchAll) and replaced by the default.
getLocalStorage(item, defaultValue) ==
  IF item.kind = "missing" THEN defaultValue
  ELSE IF item.kind = "corrupt" THEN defaultValue
  ELSE IF ~conforms(item.text) THEN defaultValue
  ELSE schemaParse(item.text)

\* localStorage.setItem(key, value) with value = JSON.stringify(settings):
\* the whole item is replaced by the serialised document.
setLocalStorage(settings) == [kind |-> "json", text |-> stringify(settings)]

(***************************************************************************)
(* The command table: `Commands` and the exported `commands` object.  Each *)
(* command has a runIn<Context> member for its native context and may have *)
(* invokeFrom<Context> members (shims) for other contexts; a member that   *)
(* is not defined is undefined on the object.                              *)
(***************************************************************************)
Contexts == {"Popup", "BackgroundServiceWorker", "GlobalContentScript",
             "WhisperingContentScript"}

CommandNames == {"openOptionsPage", "getCurrentTabId", "getSettings",
                 "setSettings", "toggleRecording", "cancelRecording",
                 "sendErrorToast"}

\* A variant of the table in which sendErrorToast has a shim for the popup.
shimContextsWithToast(cmd) ==
  CASE cmd \in {"openOptionsPage", "getSettings", "setSettings"} ->
         {"GlobalContentScript"}
    [] cmd \in {"toggleRecording", "cancelRecording", "sendErrorToast"} ->
         {"BackgroundServiceWorker", "Popup"}
    [] OTHER -> {}

\* The context of the command's runIn<Context> member.
nativeContext(cmd) ==
  CASE cmd \in {"openOptionsPage", "getCurrentTabId"} -> "BackgroundServiceWorker"
    [] cmd \in {"getSettings", "setSettings"} -> "WhisperingContentScript"
    [] OTHER -> "GlobalContentScript"

\* The contexts of the command's invokeFrom<Context> members.
shimContexts(cmd) ==
  CASE cmd \in {"openOptionsPage", "getSettings", "setSettings"} ->
         {"GlobalContentScript"}
    [] cmd \in {"toggleRecording", "cancelRecording"} ->
         {"BackgroundServiceWorker", "Popup"}
    [] OTHER -> {}

\* What commands[cmd] holds for a caller in context ctx.
member(cmd, ctx) ==
  IF ctx = nativeContext(cmd) THEN "runIn"
  ELSE IF ctx \in shimContexts(cmd) THEN "invokeFrom"
  ELSE "undefined"

\* A variant in which every shim names the command cancelRecording.
shimMessageCancel(cmd) == "cancelRecording"

\* The commandName of the message the shim of cmd sends.
shimMessage(cmd) == cmd

(***************************************************************************)
(* getOrCreateWhisperingTabId.                                             *)
(***************************************************************************)
RECURSIVE pinnedLoop(_, _)
\* for (const tab of tabs) if (tab.pinned) return tab.id;  return tabs[0].id
pinnedLoop(ts, i) ==
  IF i > Len(ts) THEN ts[1].id
  ELSE IF ts[i].pinned THEN ts[i].id
  ELSE pinnedLoop(ts, i + 1)

\* A variant that ignores the pinned flag.
pickFirstTabId(ts) == ts[1].id

pickTabId(ts) == pinnedLoop(ts, 1)

\* A variant that opens the page focused and unpinned.
newTabFocused(id) == Tab(id, FALSE, TRUE, TRUE)

\* The tab chrome.tabs.create({url, active: false, pinned: true}) opens.
newTab(id) == Tab(id, TRUE, FALSE, TRUE)

\* Callers inside checkAndUpdateSelectedAudioInputDevice: a typed failure of
\* the shim is caught by its Effect.catchAll and the toggle goes on.
FallbackRets == {"t_fb_enum", "t_fb_old", "t_get"}

\* A typed failure raised while slot record r waits in a shim.
shimFailure(r, err) ==
  IF r.ret \in FallbackRets
    THEN [r EXCEPT !.pc = "t_get", !.ret = "none", !.fbFailed = TRUE]
    ELSE Done(r, err)

locRecord(seen, made, res, id, after) ==
  [done |-> TRUE, seen |-> seen, made |-> made, res |-> res, id |-> id,
   after |-> after]

\* Option.fromNullable(id) with mapError: no id is an InvokeCommandError.
locFinish(r, seen, made, id, after) ==
  LET res == IF id = NoId THEN "InvokeCommandError" ELSE "ok"
      r1  == [r EXCEPT !.loc = locRecord(seen, made, res, id, after),
                       !.tabId = id]
  IN IF id = NoId THEN shimFailure(r1, "InvokeCommandError")
     ELSE [r1 EXCEPT !.pc = "send"]

\* A variant that keeps the id of the last successful lookup and answers
\* with it without asking chrome.tabs.query again.
LocQueryCached(s) ==
  /\ inv[s].pc = "loc_query"
  /\ LET r == [inv[s] EXCEPT !.prevLoc = lastLoc, !.lookups = @ + 1] IN
     \/ /\ lastLoc.done /\ lastLoc.res = "ok"
        /\ Put(s, [r EXCEPT !.loc = locRecord(tabs, FALSE, "ok", lastLoc.id, tabs),
                            !.tabId = lastLoc.id, !.pc = "send"])
        /\ lastLoc' = locRecord(tabs, FALSE, "ok", lastLoc.id, tabs)
     \/ /\ ~(lastLoc.done /\ lastLoc.res = "ok")
        /\ Len(tabs) > 0
        /\ LET r2 == locFinish([r EXCEPT !.seen = tabs], tabs, FALSE,
                               pickTabId(tabs), tabs)
           IN /\ Put(s, r2)
              /\ lastLoc' = r2.loc
     \/ /\ ~(lastLoc.done /\ lastLoc.res = "ok")
        /\ Len(tabs) = 0
        /\ Put(s, [r EXCEPT !.seen = tabs, !.pc = "loc_create"])
        /\ lastLoc' = lastLoc
  /\ UNCHANGED <<recorderState, capturing, localStorage, tabs, nextTabId,
                 devices, micOk, calls, closes>>
  /\ UNCHANGED tableVars
  /\ UNCHANGED appVars

\* chrome.tabs.query({url}) answers; a non-empty answer is resolved at once.
LocQuery(s) ==
  /\ inv[s].pc = "loc_query"
  /\ LET r == [inv[s] EXCEPT !.prevLoc = lastLoc, !.lookups = @ + 1] IN
     \/ \* the query promise rejects: Effect.promise turns it into a defect
        /\ Put(s, Done([r EXCEPT !.loc = locRecord(<<>>, FALSE, "defect", NoId, tabs)],
                       "defect"))
        /\ lastLoc' = locRecord(<<>>, FALSE, "defect", NoId, tabs)
     \/ /\ Len(tabs) > 0
        /\ LET r2 == locFinish([r EXCEPT !.seen = tabs], tabs, FALSE,
                               pickTabId(tabs), tabs)
           IN /\ Put(s, r2)
              /\ lastLoc' = r2.loc
     \/ /\ Len(tabs) = 0
        /\ Put(s, [r EXCEPT !.seen = tabs, !.pc = "loc_create"])
        /\ lastLoc' = lastLoc
  /\ UNCHANGED <<recorderState, capturing, localStorage, tabs, nextTabId,
                 devices, micOk, calls, closes>>
  /\ UNCHANGED tableVars
  /\ UNCHANGED appVars

\* chrome.tabs.create answers.
LocCreate(s) ==
  /\ inv[s].pc = "loc_create"
  /\ LET r == inv[s] IN
     \/ \* the create promise rejects
        /\ Put(s, Done([r EXCEPT !.loc = locRecord(r.seen, FALSE, "defect", NoId, tabs)],
                       "defect"))
        /\ lastLoc' = locRecord(r.seen, FALSE, "defect", NoId, tabs)
        /\ UNCHANGED <<tabs, nextTabId>>
     \/ \E id \in {nextTabId, NoId} :
        LET ts == Append(tabs, newTab(id))
            r2 == locFinish(r, r.seen, TRUE, id, ts)
        IN /\ tabs' = ts
           /\ nextTabId' = nextTabId + 1
           /\ Put(s, r2)
           /\ lastLoc' = r2.loc
  /\ UNCHANGED <<recorderState, capturing, localStorage, devices, micOk,
                 calls, closes>>
  /\ UNCHANGED tableVars
  /\ UNCHANGED appVars

(***************************************************************************)
(* sendMessageToWhisperingContentScript: chrome.tabs.sendMessage to the    *)
(* resolved tab, answered by the command's runInWhisperingContentScript.   *)
(***************************************************************************)
TabOpen(id) == \E i \in 1..Len(tabs) : tabs[i].id = id

Send(s) ==
  /\ inv[s].pc = "send"
  /\ LET r == [inv[s] EXCEPT !.sends = @ + 1, !.sentName = shimMessage(inv[s].msg),
                                !.sentTo = "WhisperingContentScript"]
         back == [r EXCEPT !.pc = r.ret, !.ret = "none",
                           !.res = IF r.ret = "done" THEN "ok" ELSE r.res]
     IN
     \/ \* no receiver (page closed or not ready): the promise rejects
        /\ Put(s, Done(r, "defect"))
        /\ UNCHANGED localStorage
     \/ /\ TabOpen(r.tabId)
        /\ r.msg = "getSettings"
        /\ Put(s, [back EXCEPT !.settings = getLocalStorage(localStorage, DefaultSettings)])
        /\ UNCHANGED localStorage
     \/ /\ TabOpen(r.tabId)
        /\ r.msg = "setSettings"
        /\ \/ /\ localStorage' = setLocalStorage(r.arg)
              /\ Put(s, [back EXCEPT !.settingsWrites = @ + 1, !.stored = TRUE])
           \/ \* setItem throws (quota): nothing is stored
              /\ UNCHANGED localStorage
              /\ Put(s, [back EXCEPT !.settingsWrites = @ + 1])
  /\ UNCHANGED <<recorderState, capturing, tabs, nextTabId, devices, micOk,
                 calls, closes, lastLoc>>
  /\ UNCHANGED tableVars
  /\ UNCHANGED appVars

(***************************************************************************)
(* Feedback sounds: startSound.play(), stopSound.play(), cancelSound.play()*)
(***************************************************************************)
play(r, sound, enabled) ==
  IF enabled THEN [r EXCEPT !.cues = Append(@, sound)] ELSE r

(***************************************************************************)
(* cancelRecording.runInGlobalContentScript, after its getSettings shim.   *)
(***************************************************************************)
\* recorderStateService.get() answers.
CancelGet(s) ==
  /\ inv[s].pc = "c_get"
  /\ \/ Put(s, Done(inv[s], "ExtensionStorageError"))
     \/ Put(s, [inv[s] EXCEPT !.readState = recorderState, !.pc = "c_cancel"])
  /\ UNCHANGED <<recorderState, capturing, localStorage, tabs, nextTabId,
                 devices, micOk, calls, closes, lastLoc>>
  /\ UNCHANGED tableVars
  /\ UNCHANGED appVars

\* A variant that commits IDLE before the cancellation request is answered.
CancelCancelCommitsFirst(s) ==
  /\ inv[s].pc = "c_cancel"
  /\ recorderState' = "IDLE"
  /\ LET r == [inv[s] EXCEPT !.cancels = @ + 1] IN
     \/ /\ Put(s, Done(r, "RecorderError"))
        /\ UNCHANGED capturing
     \/ /\ capturing' = FALSE
        /\ Put(s, [play(r, "cancel",
                        r.readState = "RECORDING" /\ r.settings.isPlaySoundEnabled)
                   EXCEPT !.pc = "c_set"])
  /\ UNCHANGED <<localStorage, tabs, nextTabId, devices, micOk,
                 calls, closes, lastLoc>>
  /\ UNCHANGED tableVars
  /\ UNCHANGED appVars

\* A variant that plays the cancel cue whatever the state read.
CancelCancelCueAlways(s) ==
  /\ inv[s].pc = "c_cancel"
  /\ LET r == [inv[s] EXCEPT !.cancels = @ + 1] IN
     \/ /\ Put(s, Done(r, "RecorderError"))
        /\ UNCHANGED capturing
     \/ /\ capturing' = FALSE
        /\ Put(s, [play(r, "cancel", r.settings.isPlaySoundEnabled)
                   EXCEPT !.pc = "c_set"])
  /\ UNCHANGED <<recorderState, localStorage, tabs, nextTabId, devices, micOk,
                 calls, closes, lastLoc>>
  /\ UNCHANGED tableVars
  /\ UNCHANGED appVars

\* recorderService.cancelRecording answers; then the cue and the log.
CancelCancel(s) ==
  /\ inv[s].pc = "c_cancel"
  /\ LET r == [inv[s] EXCEPT !.cancels = @ + 1] IN
     \/ /\ Put(s, Done(r, "RecorderError"))
        /\ UNCHANGED capturing
     \/ /\ capturing' = FALSE
        /\ Put(s, [play(r, "cancel",
                        r.readState = "RECORDING" /\ r.settings.isPlaySoundEnabled)
                   EXCEPT !.pc = "c_set"])
  /\ UNCHANGED <<recorderState, localStorage, tabs, nextTabId, devices, micOk,
                 calls, closes, lastLoc>>
  /\ UNCHANGED tableVars
  /\ UNCHANGED appVars

\* A variant that commits IDLE only when the state read was RECORDING.
CancelSetWhenRecording(s) ==
  /\ inv[s].pc = "c_set"
  /\ \/ /\ Put(s, Done(inv[s], "ExtensionStorageError"))
        /\ UNCHANGED recorderState
     \/ /\ recorderState' = IF inv[s].readState = "RECORDING" THEN "IDLE"
                             ELSE recorderState
        /\ Put(s, Done([inv[s] EXCEPT !.stateWrites = @ + 1], "ok"))
  /\ UNCHANGED <<capturing, localStorage, tabs, nextTabId, devices, micOk,
                 calls, closes, lastLoc>>
  /\ UNCHANGED tableVars
  /\ UNCHANGED appVars

\* A variant that commits RECORDING.
CancelSetRecording(s) ==
  /\ inv[s].pc = "c_set"
  /\ \/ /\ Put(s, Done(inv[s], "ExtensionStorageError"))
        /\ UNCHANGED recorderState
     \/ /\ recorderState' = "RECORDING"
        /\ Put(s, Done([inv[s] EXCEPT !.stateWrites = @ + 1], "ok"))
  /\ UNCHANGED <<capturing, localStorage, tabs, nextTabId, devices, micOk,
                 calls, closes, lastLoc>>
  /\ UNCHANGED tableVars
  /\ UNCHANGED appVars

\* recorderStateService.set('IDLE') answers.
CancelSet(s) ==
  /\ inv[s].pc = "c_set"
  /\ \/ /\ Put(s, Done(inv[s], "ExtensionStorageError"))
        /\ UNCHANGED recorderState
     \/ /\ recorderState' = "IDLE"
        /\ Put(s, Done([inv[s] EXCEPT !.stateWrites = @ + 1], "ok"))
  /\ UNCHANGED <<capturing, localStorage, tabs, nextTabId, devices, micOk,
                 calls, closes, lastLoc>>
  /\ UNCHANGED tableVars
  /\ UNCHANGED appVars

cancelRecording(s) == CancelGet(s) \/ CancelCancel(s) \/ CancelSet(s)

(***************************************************************************)
(* toggleRecording.runInGlobalContentScript.  One step per suspension      *)
(* point; "settings" is the literal ToggleSettings throughout, the         *)
(* document read inside checkAndUpdateSelectedAudioInputDevice is a        *)
(* variable of that sub-routine only.  The literal's apiKey is empty, so   *)
(* the guard always returns; the arms from "t_fb_enum" on translate lines  *)
(* 283-305 and are reached only if the literal carries a key.              *)
(*                                                                         *)
(* RecorderService and RecorderStateService are imported, not defined      *)
(* here: get() answers the stored value or fails, set(v) stores v or fails *)
(* storing nothing, each recorder request succeeds or fails with a         *)
(* RecorderError.                                                          *)
(***************************************************************************)
deviceExists(ds, id) == \E i \in 1..Len(ds) : ds[i] = id

toggleRecording(s) ==
  LET r == inv[s] IN
  CASE r.pc = "t_guard" ->
         \* if (!settings.apiKey) { alert; yield* openOptionsPage...; return }
         /\ IF ToggleSettings.apiKey = ""
              THEN Put(s, [r EXCEPT !.alerts = @ + 1, !.opened = @ + 1,
                                    !.sentName = shimMessage("openOptionsPage"),
                                    !.sentTo = "BackgroundServiceWorker",
                                    !.pc = "t_open"])
              ELSE \* checkAndUpdateSelectedAudioInputDevice: first getSettings
                   Put(s, [r EXCEPT !.pc = "loc_query", !.ret = "t_fb_enum",
                                    !.msg = "getSettings"])
         /\ UNCHANGED <<recorderState, capturing>>
    [] r.pc = "t_open" ->
         \* chrome.runtime.sendMessage({commandName: 'openOptionsPage'}) answers
         /\ \/ Put(s, Done(r, "ok"))
            \/ Put(s, Done(r, "defect"))
         /\ UNCHANGED <<recorderState, capturing>>
    [] r.pc = "t_fb_enum" ->
         \* recorderService.enumerateRecordingDevices answers
         /\ \/ Put(s, [r EXCEPT !.pc = "t_get", !.fbFailed = TRUE])
            \/ IF deviceExists(devices, r.settings.selectedAudioInputDeviceId)
                 THEN Put(s, [r EXCEPT !.pc = "t_get"])
                 ELSE IF Len(devices) = 0
                   THEN \* recordingDevices[0].deviceId throws a TypeError
                        Put(s, Done(r, "defect"))
                   ELSE Put(s, [r EXCEPT
                          !.arg = [@ EXCEPT !.selectedAudioInputDeviceId = devices[1]],
                          !.pc = "loc_query", !.ret = "t_fb_old",
                          !.msg = "getSettings"])
         /\ UNCHANGED <<recorderState, capturing>>
    [] r.pc = "t_fb_old" ->
         \* setSettings({...oldSettings, selectedAudioInputDeviceId: firstAudioInput})
         /\ Put(s, [r EXCEPT
              !.arg = [r.settings EXCEPT !.selectedAudioInputDeviceId =
                                           r.arg.selectedAudioInputDeviceId],
              !.pc = "loc_query", !.ret = "t_get", !.msg = "setSettings"])
         /\ UNCHANGED <<recorderState, capturing>>
    [] r.pc = "t_get" ->
         \* recorderStateService.get() answers; switch (recorderState)
         /\ \/ Put(s, Done(r, "ExtensionStorageError"))
            \/ LET r2 == [r EXCEPT !.readState = recorderState] IN
               Put(s, CASE recorderState = "IDLE" -> [r2 EXCEPT !.pc = "t_start"]
                        [] recorderState = "RECORDING" -> [r2 EXCEPT !.pc = "t_stop"]
                        [] OTHER -> Done(r2, "ok"))
         /\ UNCHANGED <<recorderState, capturing>>
    [] r.pc = "t_start" ->
         \* recorderService.startRecording(settings.selectedAudioInputDeviceId)
         LET r2 == [r EXCEPT !.starts = @ + 1,
                             !.startedOn = ToggleSettings.selectedAudioInputDeviceId] IN
         IF micOk
           THEN /\ capturing' = TRUE
                /\ Put(s, [play(r2, "start", ToggleSettings.isPlaySoundEnabled)
                           EXCEPT !.pc = "t_set_recording"])
                /\ UNCHANGED recorderState
           ELSE /\ Put(s, Done(r2, "RecorderError"))
                /\ UNCHANGED <<recorderState, capturing>>
    [] r.pc = "t_stop" ->
         \* recorderService.stopRecording()
         LET r2 == [r EXCEPT !.stops = @ + 1] IN
         \/ /\ capturing' = FALSE
            /\ Put(s, [play(r2, "stop", ToggleSettings.isPlaySoundEnabled)
                       EXCEPT !.pc = "t_set_idle"])
            /\ UNCHANGED recorderState
         \/ /\ Put(s, Done(r2, "RecorderError"))
            /\ UNCHANGED <<recorderState, capturing>>
    [] r.pc \in {"t_set_recording", "t_set_idle"} ->
         \* recorderStateService.set(...) answers
         \/ /\ Put(s, Done(r, "ExtensionStorageError"))
            /\ UNCHANGED <<recorderState, capturing>>
         \/ /\ recorderState' = IF r.pc = "t_set_idle" THEN "IDLE" ELSE "RECORDING"
            /\ Put(s, Done([r EXCEPT !.stateWrites = @ + 1], "ok"))
            /\ UNCHANGED capturing
    [] OTHER -> FALSE

ToggleRecording(s) ==
  /\ toggleRecording(s)
  /\ UNCHANGED <<localStorage, tabs, nextTabId, devices, micOk, calls, closes,
                 lastLoc>>
  /\ UNCHANGED tableVars
  /\ UNCHANGED appVars

(***************************************************************************)
(* A caller invokes a command of the exported `commands` object in the     *)
(* global content script.  Slot 2 is used only while slot 1 is busy.       *)
(* Under Spec the invocations follow one another; under SpecOverlap a      *)
(* second one may begin while the first is suspended.                      *)
(***************************************************************************)
Commands == {"toggleRecording", "cancelRecording", "getSettings"}

\* commands[cmd].runIn<ctx>() in the native context, else
\* commands[cmd].invokeFrom<ctx>(); calling a member that is undefined
\* throws a TypeError.
firstStep(r) ==
  CASE member(r.cmd, r.ctx) = "undefined" -> Done(r, "TypeError")
    [] member(r.cmd, r.ctx) = "invokeFrom" ->
         CASE nativeContext(r.cmd) = "WhisperingContentScript" ->
                \* sendMessageToWhisperingContentScript({commandName, args})
                [r EXCEPT !.pc = "loc_query", !.ret = "done", !.msg = r.cmd]
           [] nativeContext(r.cmd) = "BackgroundServiceWorker" ->
                \* sendMessageToBackground({commandName, args})
                [r EXCEPT !.pc = "b_send", !.msg = r.cmd]
           [] OTHER ->
                \* sendMessageToGlobalContentScript({commandName, args})
                [r EXCEPT !.pc = "a_query", !.msg = r.cmd]
    [] r.cmd = "toggleRecording" -> [r EXCEPT !.pc = "t_guard"]
    [] r.cmd = "cancelRecording" ->
         \* const settings = yield* getSettings.invokeFromGlobalContentScript()
         [r EXCEPT !.pc = "loc_query", !.ret = "c_get", !.msg = "getSettings"]
    [] OTHER -> [r EXCEPT !.pc = "native"]

Invoke(s, cmd) ==
  /\ calls < MaxCalls
  /\ ~Active(s)
  /\ s = 2 => Active(1)
  /\ LET other == CHOOSE t \in Slots : t # s
         r == firstStep(FreshInv(cmd, "idle", recorderState,
                                 getLocalStorage(localStorage, DefaultSettings),
                                 Active(other)))
     IN inv' = [inv EXCEPT ![s] = r,
                           ![other] = [@ EXCEPT !.overlapped = @ \/ Active(other)]]
  /\ calls' = calls + 1
  /\ UNCHANGED <<recorderState, capturing, localStorage, tabs, nextTabId,
                 devices, micOk, closes, lastLoc>>
  /\ UNCHANGED tableVars
  /\ UNCHANGED appVars

(***************************************************************************)
(* The user closes one of the matching pages.                              *)
(***************************************************************************)
removeAt(ts, i) == [j \in 1..(Len(ts) - 1) |-> IF j < i THEN ts[j] ELSE ts[j + 1]]

CloseTab(i) ==
  /\ closes < MaxCloses
  /\ i \in 1..Len(tabs)
  /\ tabs' = removeAt(tabs, i)
  /\ closes' = closes + 1
  /\ UNCHANGED <<recorderState, capturing, localStorage, nextTabId, devices,
                 micOk, inv, calls, lastLoc>>
  /\ UNCHANGED tableVars
  /\ UNCHANGED appVars

Quiet == \A s \in Slots : ~Active(s)

(***************************************************************************)
(* getActiveTabId and the sends of sendMessageToGlobalContentScript and    *)
(* sendMessageToBackground.  What the receiving context does with the      *)
(* message is decided by its listener, which is not part of this file: the *)
(* send is answered (the promise resolves) or rejected.                    *)
(***************************************************************************)
\* A variant that reports an empty answer as the typed failure.
getActiveTabIdChecked(s) ==
  /\ inv[s].pc = "a_query"
  /\ LET r == inv[s] IN
     \/ Put(s, Done(r, "InvokeCommandError"))
     \/ /\ Len(activeTabs) > 0 /\ activeTabs[1].id # NoId
        /\ Put(s, [r EXCEPT !.tabId = activeTabs[1].id, !.pc = "g_send"])
  /\ UNCHANGED <<recorderState, capturing, localStorage, tabs, nextTabId,
                 devices, micOk, calls, closes, lastLoc>>
  /\ UNCHANGED tableVars
  /\ UNCHANGED appVars

getActiveTabId(s) ==
  /\ inv[s].pc = "a_query"
  /\ LET r == inv[s] IN
     \/ \* chrome.tabs.query rejects: Effect.tryPromise makes it typed
        Put(s, Done(r, "InvokeCommandError"))
     \/ \* activeTabs[0] is undefined: `firstActiveTab.id` throws a TypeError
        /\ Len(activeTabs) = 0
        /\ Put(s, Done(r, "defect"))
     \/ \* if (!firstActiveTab.id): 'No active tab ID found'
        /\ Len(activeTabs) > 0 /\ activeTabs[1].id = NoId
        /\ Put(s, Done(r, "InvokeCommandError"))
     \/ /\ Len(activeTabs) > 0 /\ activeTabs[1].id # NoId
        /\ Put(s, [r EXCEPT !.tabId = activeTabs[1].id, !.pc = "g_send"])
  /\ UNCHANGED <<recorderState, capturing, localStorage, tabs, nextTabId,
                 devices, micOk, calls, closes, lastLoc>>
  /\ UNCHANGED tableVars
  /\ UNCHANGED appVars

\* chrome.tabs.sendMessage(activeTabId, message) under Effect.promise
sendMessageToGlobalContentScript(s) ==
  /\ inv[s].pc = "g_send"
  /\ LET r == [inv[s] EXCEPT !.sends = @ + 1, !.sentName = shimMessage(inv[s].msg),
                                !.sentTo = "GlobalContentScript"] IN
     \/ Put(s, Done(r, "ok"))
     \/ Put(s, Done(r, "defect"))
  /\ UNCHANGED <<recorderState, capturing, localStorage, tabs, nextTabId,
                 devices, micOk, calls, closes, lastLoc>>
  /\ UNCHANGED tableVars
  /\ UNCHANGED appVars

\* chrome.runtime.sendMessage(message) under Effect.promise
sendMessageToBackground(s) ==
  /\ inv[s].pc = "b_send"
  /\ LET r == [inv[s] EXCEPT !.sends = @ + 1, !.sentName = shimMessage(inv[s].msg),
                                !.sentTo = "BackgroundServiceWorker"] IN
     \/ Put(s, Done(r, "ok"))
     \/ Put(s, Done(r, "defect"))
  /\ UNCHANGED <<recorderState, capturing, localStorage, tabs, nextTabId,
                 devices, micOk, calls, closes, lastLoc>>
  /\ UNCHANGED tableVars
  /\ UNCHANGED appVars

(***************************************************************************)
(* The native handlers that complete without suspending on another         *)
(* command: runInWhisperingContentScript of getSettings and setSettings,   *)
(* runInBackgroundServiceWorker of openOptionsPage and getCurrentTabId,    *)
(* runInGlobalContentScript of sendErrorToast.                             *)
(***************************************************************************)
Native(s, cmd) == inv[s].pc = "native" /\ inv[s].cmd = cmd

getSettings(s) ==
  /\ Native(s, "getSettings")
  /\ Put(s, Done([inv[s] EXCEPT
               !.settings = getLocalStorage(localStorage, DefaultSettings)], "ok"))
  /\ UNCHANGED <<recorderState, capturing, localStorage, tabs, nextTabId,
                 devices, micOk, calls, closes, lastLoc>>
  /\ UNCHANGED tableVars
  /\ UNCHANGED appVars

setSettings(s) ==
  /\ Native(s, "setSettings")
  /\ \/ /\ localStorage' = setLocalStorage(inv[s].arg)
        /\ Put(s, Done([inv[s] EXCEPT !.settingsWrites = @ + 1,
                                      !.stored = TRUE], "ok"))
     \/ \* setItem throws: Effect.try makes it an InvokeCommandError
        /\ UNCHANGED localStorage
        /\ Put(s, Done(inv[s], "InvokeCommandError"))
  /\ UNCHANGED <<recorderState, capturing, tabs, nextTabId, devices, micOk,
                 calls, closes, lastLoc>>
  /\ UNCHANGED tableVars
  /\ UNCHANGED appVars

openOptionsPage(s) ==
  /\ Native(s, "openOptionsPage")
  /\ \/ /\ optionsOpen' = TRUE
        /\ Put(s, Done(inv[s], "ok"))
     \/ /\ UNCHANGED optionsOpen
        /\ Put(s, Done(inv[s], "InvokeCommandError"))
  /\ UNCHANGED <<recorderState, capturing, localStorage, tabs, nextTabId,
                 devices, micOk, calls, closes, lastLoc, activeTabs, toastItem>>
  /\ UNCHANGED appVars

getCurrentTabId(s) ==
  /\ Native(s, "getCurrentTabId")
  /\ \/ Put(s, Done(inv[s], "InvokeCommandError"))
     \/ /\ Len(activeTabs) = 0
        /\ Put(s, Done(inv[s], "InvokeCommandError"))
     \/ /\ Len(activeTabs) > 0
        /\ Put(s, Done([inv[s] EXCEPT !.tabId = activeTabs[1].id], "ok"))
  /\ UNCHANGED <<recorderState, capturing, localStorage, tabs, nextTabId,
                 devices, micOk, calls, closes, lastLoc>>
  /\ UNCHANGED tableVars
  /\ UNCHANGED appVars

\* ExtensionStorageService is imported: set stores the value or fails.
sendErrorToast(s) ==
  /\ Native(s, "sendErrorToast")
  /\ \/ /\ toastItem' = "toast"
        /\ Put(s, Done(inv[s], "ok"))
     \/ /\ UNCHANGED toastItem
        /\ Put(s, Done(inv[s], "ExtensionStorageError"))
  /\ UNCHANGED <<recorderState, capturing, localStorage, tabs, nextTabId,
                 devices, micOk, calls, closes, lastLoc, activeTabs, optionsOpen>>
  /\ UNCHANGED appVars

\* A caller in context ctx invokes commands[cmd] with argument arg.
InvokeFrom(ctx, cmd, arg) ==
  /\ calls < MaxTableCalls
  /\ Quiet
  /\ inv' = [inv EXCEPT ![1] =
        firstStep([FreshInv(cmd, "idle", recorderState,
                            getLocalStorage(localStorage, DefaultSettings), FALSE)
                   EXCEPT !.ctx = ctx, !.arg = arg])]
  /\ calls' = calls + 1
  /\ UNCHANGED <<recorderState, capturing, localStorage, tabs, nextTabId,
                 devices, micOk, closes, lastLoc>>
  /\ UNCHANGED tableVars
  /\ UNCHANGED appVars

TableSteps ==
  \/ \E s \in Slots : getActiveTabId(s)
  \/ \E s \in Slots : sendMessageToGlobalContentScript(s)
  \/ \E s \in Slots : sendMessageToBackground(s)
  \/ \E s \in Slots : getSettings(s)
  \/ \E s \in Slots : setSettings(s)
  \/ \E s \in Slots : openOptionsPage(s)
  \/ \E s \in Slots : getCurrentTabId(s)
  \/ \E s \in Slots : sendErrorToast(s)

Steps ==
  \/ \E s \in Slots : LocQuery(s)
  \/ \E s \in Slots : LocCreate(s)
  \/ \E s \in Slots : Send(s)
  \/ \E s \in Slots : cancelRecording(s)
  \/ \E s \in Slots : ToggleRecording(s)
  \/ \E i \in 1..Len(tabs) : CloseTab(i)

Next ==
  \/ \E cmd \in Commands : Quiet /\ Invoke(1, cmd)
  \/ Steps

NextOverlap ==
  \/ \E s \in Slots, cmd \in Commands : Invoke(s, cmd)
  \/ Steps

Spec == Init /\ [][Next]_vars

\* Overlapping invocations are explored from fewer initial states.
InitOverlap ==
  /\ Init
  /\ recorderState \in {"IDLE", "RECORDING"}
  /\ localStorage.kind \in {"missing", "json"}
  /\ conforms(localStorage.text)
  /\ getLocalStorage(localStorage, DefaultSettings).isPlaySoundEnabled
  /\ getLocalStorage(localStorage, DefaultSettings).selectedAudioInputDeviceId # "mic1"
  /\ Len(tabs) <= 1 /\ \A i \in 1..Len(tabs) : tabs[i].id # NoId /\ ~tabs[i].pinned
  /\ micOk /\ Len(devices) > 0

SpecOverlap == InitOverlap /\ [][NextOverlap]_vars

\* Every command invoked from every context, one invocation at a time.
SettingsArgs == {d \in SettingsDocs : d.selectedAudioInputDeviceId = "mic1"
                                       /\ d.apiKey # ""}

ActiveTabAnswers == {<<>>, <<[id |-> NoId]>>, <<[id |-> 7]>>}

InitTable ==
  /\ AppInit
  /\ recorderState \in {"IDLE", "RECORDING"}
  /\ capturing = (recorderState = "RECORDING")
  /\ localStorage \in {i \in StorageItems :
                         i.kind = "json" /\ conforms(i.text) =>
                           /\ schemaParse(i.text).isPlaySoundEnabled
                           /\ schemaParse(i.text).apiKey = ""
                           /\ schemaParse(i.text).selectedAudioInputDeviceId = "gone"}
  /\ tabs = <<Tab(1, FALSE, TRUE, FALSE)>>
  /\ nextTabId = 3
  /\ devices = <<"mic2", "mic1">> /\ micOk = TRUE
  /\ inv = [s \in Slots |-> IdleInv]
  /\ calls = 0
  /\ closes = 0
  /\ lastLoc = NoLoc
  /\ activeTabs \in ActiveTabAnswers
  /\ toastItem = "none"
  /\ optionsOpen = FALSE

NextTable ==
  \/ \E ctx \in Contexts, cmd \in CommandNames, arg \in SettingsArgs :
        /\ cmd # "setSettings" => arg = CHOOSE d \in SettingsArgs : TRUE
        /\ InvokeFrom(ctx, cmd, arg)
  \/ Steps
  \/ TableSteps

SpecTable == InitTable /\ [][NextTable]_vars

(***************************************************************************)
(* The app's recordings store: transcribeRecording(id), one step per       *)
(* suspension point.  ToastService, NotificationService, ClipboardService, *)
(* RecordingsDbService and TranscriptionService are imported: a toast or   *)
(* notification changes nothing here, a database request succeeds or       *)
(* fails, a transcription answers with a text or fails.                    *)
(***************************************************************************)
PutTr(p, r) == tr' = [tr EXCEPT ![p] = r]

\* Effect.tapError(renderErrorAsToast) and Effect.catchAll(() => ''), then
\* `if (transcribedText === '') return`
TrFailed(r, out) == [r EXCEPT !.pc = "done", !.out = out]

\* updateRecording(recording) once recordingsDb.updateRecording succeeded:
\* the database holds it and the list entry with that id is replaced.
dbUpdated(db, id, recording) == [db EXCEPT ![id] = recording]

listUpdated(list, id, recording) ==
  [i \in RecIds |-> IF i = id /\ list[i] # NoRecording THEN recording ELSE list[i]]

\* A caller starts transcribeRecording(id); the first toast is shown.
TrCall(p, id) ==
  /\ appCalls.transcribes < MaxTranscribes
  /\ tr[p].pc \in {"idle", "done"}
  /\ PutTr(p, [IdleTr EXCEPT !.pc = "tr_begin", !.id = id])
  /\ appCalls' = [appCalls EXCEPT !.transcribes = @ + 1]
  /\ UNCHANGED <<appRecorderState, recordings, recordingsDb>>
  /\ UNCHANGED extVars

\* A variant that assigns LOADING whatever the recorder state is.
TrBeginAlways(p) ==
  /\ tr[p].pc = "tr_begin"
  /\ appRecorderState' = "LOADING"
  /\ \E hidden \in BOOLEAN :
       PutTr(p, [tr[p] EXCEPT !.setLoading = TRUE,
                              !.pc = IF hidden THEN "tr_notify" ELSE "tr_get"])
  /\ UNCHANGED <<recordings, recordingsDb, appCalls>>
  /\ UNCHANGED extVars

\* if (recorderState.value !== 'RECORDING') recorderState.value = 'LOADING';
\* then notify when the document is hidden.
TrBegin(p) ==
  /\ tr[p].pc = "tr_begin"
  /\ appRecorderState' = IF appRecorderState # "RECORDING" THEN "LOADING"
                         ELSE appRecorderState
  /\ \E hidden \in BOOLEAN :
       PutTr(p, [tr[p] EXCEPT !.setLoading = (appRecorderState # "RECORDING"),
                              !.pc = IF hidden THEN "tr_notify" ELSE "tr_get"])
  /\ UNCHANGED <<recordings, recordingsDb, appCalls>>
  /\ UNCHANGED extVars

\* notify({...}) answers.
TrNotify(p) ==
  /\ tr[p].pc = "tr_notify"
  /\ PutTr(p, [tr[p] EXCEPT !.notified = TRUE, !.pc = "tr_get"])
  /\ UNCHANGED <<appRecorderState, recordings, recordingsDb, appCalls>>
  /\ UNCHANGED extVars

\* recordingsDb.getRecording(id) answers.
TrGet(p) ==
  /\ tr[p].pc = "tr_get"
  /\ \/ PutTr(p, TrFailed(tr[p], "db_failed"))
     \/ /\ recordingsDb[tr[p].id] = NoRecording
        /\ PutTr(p, TrFailed(tr[p], "not_found"))
     \/ /\ recordingsDb[tr[p].id] # NoRecording
        /\ PutTr(p, [tr[p] EXCEPT !.recording = recordingsDb[tr[p].id],
                                  !.pc = "tr_mark"])
  /\ UNCHANGED <<appRecorderState, recordings, recordingsDb, appCalls>>
  /\ UNCHANGED extVars

\* updateRecording({...recording, transcriptionStatus: 'TRANSCRIBING'})
TrMark(p) ==
  /\ tr[p].pc = "tr_mark"
  /\ \/ /\ PutTr(p, TrFailed(tr[p], "db_failed"))
        /\ UNCHANGED <<recordings, recordingsDb>>
     \/ LET rec == [tr[p].recording EXCEPT !.transcriptionStatus = "TRANSCRIBING"] IN
        /\ recordingsDb' = dbUpdated(recordingsDb, tr[p].id, rec)
        /\ recordings' = listUpdated(recordings, tr[p].id, rec)
        /\ PutTr(p, [tr[p] EXCEPT !.pc = "tr_transcribe"])
  /\ UNCHANGED <<appRecorderState, appCalls>>
  /\ UNCHANGED extVars

\* Effect.either(transcriptionService.transcribe(recording.blob, settings))
TrTranscribe(p) ==
  /\ tr[p].pc = "tr_transcribe"
  /\ \/ PutTr(p, [tr[p] EXCEPT !.pc = "tr_unmark"])
     \/ \E text \in Transcripts :
          PutTr(p, [tr[p] EXCEPT !.text = text, !.pc = "tr_finish"])
  /\ UNCHANGED <<appRecorderState, recordings, recordingsDb, appCalls>>
  /\ UNCHANGED extVars

\* updateRecording({...recording, transcriptionStatus: 'UNPROCESSED'});
\* return yield* error
TrUnmark(p) ==
  /\ tr[p].pc = "tr_unmark"
  /\ \/ /\ PutTr(p, TrFailed(tr[p], "db_failed"))
        /\ UNCHANGED <<recordings, recordingsDb>>
     \/ LET rec == [tr[p].recording EXCEPT !.transcriptionStatus = "UNPROCESSED"] IN
        /\ recordingsDb' = dbUpdated(recordingsDb, tr[p].id, rec)
        /\ recordings' = listUpdated(recordings, tr[p].id, rec)
        /\ PutTr(p, TrFailed(tr[p], "transcription_failed"))
  /\ UNCHANGED <<appRecorderState, appCalls>>
  /\ UNCHANGED extVars

\* Where a call goes once the effects of the final Effect.all are through:
\* `if (transcribedText === '') return`, else on to the clipboard.
afterAll(r) ==
  IF r.text = "" THEN [r EXCEPT !.pc = "done", !.out = "empty"]
  ELSE [r EXCEPT !.pc = "tr_clipboard"]

\* A variant of the Effect.sync that assigns IDLE whatever the state is.
TrFinishSyncAlways(p) ==
  /\ tr[p].pc = "tr_finish"
  /\ ~tr[p].synced
  /\ appRecorderState' = "IDLE"
  /\ LET r == [tr[p] EXCEPT !.synced = TRUE, !.setIdle = TRUE]
     IN PutTr(p, IF r.updated THEN afterAll(r) ELSE r)
  /\ UNCHANGED <<recordings, recordingsDb, appCalls>>
  /\ UNCHANGED extVars

\* The Effect.sync of the Effect.all (concurrency: 'unbounded'):
\* if (recorderState.value !== 'RECORDING') recorderState.value = 'IDLE';
TrFinishSync(p) ==
  /\ tr[p].pc = "tr_finish"
  /\ ~tr[p].synced
  /\ appRecorderState' = IF appRecorderState # "RECORDING" THEN "IDLE"
                         ELSE appRecorderState
  /\ LET r == [tr[p] EXCEPT !.synced = TRUE,
                            !.setIdle = (appRecorderState # "RECORDING")]
     IN PutTr(p, IF r.updated THEN afterAll(r) ELSE r)
  /\ UNCHANGED <<recordings, recordingsDb, appCalls>>
  /\ UNCHANGED extVars

\* updateRecording({...recording, transcribedText, transcriptionStatus:
\* 'DONE'}) of the Effect.all answers; its failure interrupts the effects
\* that have not run yet.
TrFinishUpdate(p) ==
  /\ tr[p].pc = "tr_finish"
  /\ ~tr[p].updated
  /\ \/ /\ PutTr(p, TrFailed(tr[p], "db_failed"))
        /\ UNCHANGED <<recordings, recordingsDb>>
     \/ LET rec == Recording("DONE", tr[p].text)
            r == [tr[p] EXCEPT !.updated = TRUE]
        IN /\ recordingsDb' = dbUpdated(recordingsDb, tr[p].id, rec)
           /\ recordings' = listUpdated(recordings, tr[p].id, rec)
           /\ PutTr(p, IF r.synced THEN afterAll(r) ELSE r)
  /\ UNCHANGED <<appRecorderState, appCalls>>
  /\ UNCHANGED extVars

\* clipboardService.setClipboardText / writeText answer; a failure is
\* rendered as a toast (Effect.catchAll(renderErrorAsToast)).
TrClipboard(p) ==
  /\ tr[p].pc = "tr_clipboard"
  /\ \/ PutTr(p, [tr[p] EXCEPT !.pc = "done", !.out = "ok"])
     \/ PutTr(p, [tr[p] EXCEPT !.pc = "done", !.out = "clipboard_failed"])
  /\ UNCHANGED <<appRecorderState, recordings, recordingsDb, appCalls>>
  /\ UNCHANGED extVars

transcribeRecording(p) ==
  \/ TrBegin(p) \/ TrNotify(p) \/ TrGet(p) \/ TrMark(p) \/ TrTranscribe(p)
  \/ TrUnmark(p) \/ TrFinishSync(p) \/ TrFinishUpdate(p) \/ TrClipboard(p)

\* The recorder of the app (./recorder.svelte) starts or stops a recording
\* and assigns recorderState.value.
RecorderToggle ==
  /\ appCalls.toggles < MaxToggles
  /\ appRecorderState' = IF appRecorderState = "RECORDING" THEN "IDLE"
                         ELSE "RECORDING"
  /\ appCalls' = [appCalls EXCEPT !.toggles = @ + 1]
  /\ UNCHANGED <<recordings, recordingsDb, tr>>
  /\ UNCHANGED extVars

InitApp ==
  /\ Init
  /\ recorderState = "IDLE"
  /\ localStorage.kind = "missing"
  /\ tabs = <<>>
  /\ devices = <<>>

NextApp ==
  \/ \E p \in Procs, id \in RecIds : TrCall(p, id)
  \/ \E p \in Procs : transcribeRecording(p)
  \/ RecorderToggle

SpecApp == InitApp /\ [][NextApp]_vars

(***************************************************************************)
(* Properties.                                                             *)
(***************************************************************************)
Finished(s, cmd) == inv[s].pc = "done" /\ inv[s].cmd = cmd

\* A credential was configured (persisted apiKey non-empty) when s was invoked.
Configured(s) == inv[s].persisted.apiKey # ""

\* C1: with a credential configured and every collaborator succeeding, a
\* completed toggleRecording started in IDLE ends in RECORDING and one
\* started in RECORDING ends in IDLE (so successive toggles alternate).
C1_ToggleAlternates ==
  \A s \in Slots :
    (Finished(s, "toggleRecording") /\ Configured(s) /\ inv[s].res = "ok") =>
      /\ inv[s].before = "IDLE" => recorderState = "RECORDING"
      /\ inv[s].before = "RECORDING" => recorderState = "IDLE"

\* C2 as stated: every cancelRecording ends with the stored state IDLE,
\* whatever the state before the call.
C2_CancelAlwaysIdle ==
  \A s \in Slots : Finished(s, "cancelRecording") => recorderState = "IDLE"

\* C2 amended: a cancelRecording that completes without failure ends with
\* the stored state IDLE, whatever the state before the call (IDLE,
\* RECORDING or another value), so cancelling again from IDLE leaves IDLE.
C2_CancelEndsIdle ==
  \A s \in Slots :
    (Finished(s, "cancelRecording") /\ inv[s].res = "ok") =>
      /\ recorderState = "IDLE"
      /\ inv[s].stateWrites = 1

C2_Witness ==
  \E s \in Slots :
    /\ Finished(s, "cancelRecording") /\ inv[s].res = "ok"
    /\ inv[s].before = "LOADING" /\ recorderState = "IDLE"

\* C3: a toggleRecording invoked with no credential configured mutates
\* nothing: the stored state stays what it was, no capture is started or
\* stopped, no cue plays, no settings write is sent, and openOptionsPage is
\* invoked exactly once by the time the call ends (never more than once).
C3_NoCredentialAborts ==
  \A s \in Slots :
    (inv[s].cmd = "toggleRecording" /\ inv[s].pc # "idle" /\ ~Configured(s)) =>
      /\ recorderState = inv[s].before
      /\ inv[s].stateWrites = 0
      /\ inv[s].starts = 0 /\ inv[s].stops = 0 /\ inv[s].cancels = 0
      /\ inv[s].cues = <<>>
      /\ inv[s].settingsWrites = 0
      /\ inv[s].loc = NoLoc
      /\ inv[s].opened <= 1
      /\ inv[s].pc = "done" => inv[s].opened = 1 /\ inv[s].alerts = 1

C3_Witness ==
  \E s \in Slots :
    /\ Finished(s, "toggleRecording") /\ ~Configured(s)
    /\ inv[s].before = "IDLE" /\ recorderState = "IDLE"
    /\ inv[s].opened = 1 /\ inv[s].res = "ok"

\* C4: a toggleRecording invoked with no credential configured returns a
\* ConfigurationError failure; with a credential configured it never returns
\* ConfigurationError and never invokes openOptionsPage.
C4_ConfigurationError ==
  \A s \in Slots :
    Finished(s, "toggleRecording") =>
      /\ ~Configured(s) => inv[s].res = "ConfigurationError"
      /\ Configured(s) => inv[s].res # "ConfigurationError" /\ inv[s].opened = 0

\* C5: a toggleRecording run from IDLE (credential configured) on a platform
\* whose capture start fails returns a failure to its caller, leaves the
\* stored state IDLE and plays no start cue.
C5_StartFailurePropagates ==
  \A s \in Slots :
    (Finished(s, "toggleRecording") /\ Configured(s)
       /\ inv[s].before = "IDLE" /\ ~micOk) =>
      /\ inv[s].res # "ok"
      /\ recorderState = "IDLE"
      /\ inv[s].cues = <<>>

\* C6: a toggleRecording or cancelRecording that ends in failure (typed or
\* not) leaves the stored state as it was before the call, having written
\* it never, and no capture start, stop or cancel is requested twice within
\* one invocation.
C6_FailureLeavesState ==
  \A s \in Slots :
    inv[s].cmd \in {"toggleRecording", "cancelRecording"} =>
      /\ inv[s].starts + inv[s].stops <= 1
      /\ inv[s].cancels <= 1
      /\ (inv[s].pc = "done" /\ inv[s].res # "ok") =>
           recorderState = inv[s].before /\ inv[s].stateWrites = 0

\* The commit of IDLE failed after the capture was cancelled.
C6_Witness ==
  \E s \in Slots :
    /\ Finished(s, "cancelRecording")
    /\ inv[s].res = "ExtensionStorageError" /\ inv[s].cancels = 1
    /\ inv[s].before = "RECORDING" /\ recorderState = "RECORDING"

\* C7: if the persisted selectedAudioInputDeviceId is not among the
\* enumerated devices and the enumeration is non-empty, then after one
\* toggleRecording (credential configured, nothing failing) the persisted
\* selectedAudioInputDeviceId is the first enumerated device.
C7_FallbackSelectsFirst ==
  \A s \in Slots :
    (Finished(s, "toggleRecording") /\ Configured(s) /\ inv[s].res = "ok"
       /\ ~inv[s].fbFailed /\ Len(devices) > 0
       /\ ~deviceExists(devices, inv[s].persisted.selectedAudioInputDeviceId)) =>
      getLocalStorage(localStorage, DefaultSettings).selectedAudioInputDeviceId
        = devices[1]

\* C8: a failure inside the device fallback (here: the enumeration is empty,
\* so there is no first device) is discarded: the toggleRecording (credential
\* configured) still goes on to read the recorder state, and its result is
\* success or a failure of the primary path (state store, capture), never a
\* failure of the sub-routine.
C8_FallbackFailureDiscarded ==
  \A s \in Slots :
    (Finished(s, "toggleRecording") /\ Configured(s) /\ Len(devices) = 0) =>
      /\ inv[s].res = "ok" => inv[s].readState # "none"
      /\ inv[s].res \in {"ok", "ExtensionStorageError", "RecorderError"}

\* C9: a peer lookup that finds no matching page creates exactly one page,
\* pinned and not focused, and resolves to its id; a following lookup that
\* finds the pages as that lookup left them creates none and resolves to the
\* same id.
C9_CreateOnceThenReuse ==
  \A s \in Slots :
    LET l == inv[s].loc
        p == inv[s].prevLoc
    IN /\ (l.done /\ l.seen = <<>> /\ l.made) =>
            /\ l.after = <<[id |-> l.id, pinned |-> TRUE, active |-> FALSE,
                            made |-> TRUE]>>
            /\ l.res = "ok" <=> l.id # NoId
       /\ (l.done /\ l.res = "ok" /\ l.seen = <<>>) => l.made
       /\ (l.done /\ p.done /\ p.made /\ p.res = "ok" /\ l.seen = p.after) =>
            ~l.made /\ l.res = "ok" /\ l.id = p.id /\ l.after = p.after

C9_Witness ==
  \E s \in Slots :
    LET l == inv[s].loc
        p == inv[s].prevLoc
    IN /\ l.done /\ p.done /\ p.made /\ p.res = "ok" /\ p.seen = <<>>
       /\ l.seen = p.after /\ l.id = p.id /\ ~l.made
       /\ Len(tabs) = 1

\* C10: a peer lookup that finds one or more matching pages creates none and
\* resolves to the id of a pinned match if any match is pinned, otherwise to
\* the id of the first match.
C10_PinnedElseFirst ==
  \A s \in Slots :
    LET l == inv[s].loc
        pinned == {i \in 1..Len(l.seen) : l.seen[i].pinned}
    IN (l.done /\ Len(l.seen) > 0) =>
         /\ ~l.made /\ l.after = l.seen
         /\ IF pinned # {} THEN \E i \in pinned : l.id = l.seen[i].id
                           ELSE l.id = l.seen[1].id
         /\ l.res = "ok" => inv[s].tabId = l.id

\* The second of two matches is the pinned one.
C10_Witness ==
  \E s \in Slots :
    LET l == inv[s].loc
    IN /\ l.done /\ l.res = "ok" /\ Len(l.seen) = 2
       /\ ~l.seen[1].pinned /\ l.seen[2].pinned
       /\ l.id = l.seen[2].id /\ inv[s].tabId = l.id

(***************************************************************************)
(* C11  Every failure of the peer lookup is a typed failure value: a       *)
(* lookup whose query failed, whose creation failed, or whose tab has no   *)
(* id, ends in the typed error and never in an untyped fault.              *)
(* Effect.promise turns a rejected chrome.tabs.query or chrome.tabs.create *)
(* into a defect, which Effect.mapError does not reach.                    *)
(***************************************************************************)
C11_LocatorFailsTyped ==
  \A s \in Slots :
    inv[s].loc.done => inv[s].loc.res \in {"ok", "InvokeCommandError"}

(***************************************************************************)
(* The members of the command table as the claims list them: the native    *)
(* context of each command and the contexts it has a shim for.             *)
(***************************************************************************)
TableMembers ==
  {<<"openOptionsPage", "BackgroundServiceWorker">>,
   <<"openOptionsPage", "GlobalContentScript">>,
   <<"getCurrentTabId", "BackgroundServiceWorker">>,
   <<"getSettings", "WhisperingContentScript">>,
   <<"getSettings", "GlobalContentScript">>,
   <<"setSettings", "WhisperingContentScript">>,
   <<"setSettings", "GlobalContentScript">>,
   <<"toggleRecording", "GlobalContentScript">>,
   <<"toggleRecording", "BackgroundServiceWorker">>,
   <<"toggleRecording", "Popup">>,
   <<"cancelRecording", "GlobalContentScript">>,
   <<"cancelRecording", "BackgroundServiceWorker">>,
   <<"cancelRecording", "Popup">>,
   <<"sendErrorToast", "GlobalContentScript">>}

Completed(s) == inv[s].pc = "done" /\ inv[s].cmd \in CommandNames

C13_ShimsFailTyped ==
  \A s \in Slots :
    (Completed(s) /\ <<inv[s].cmd, inv[s].ctx>> \in TableMembers
       /\ inv[s].ctx # nativeContext(inv[s].cmd)) =>
      inv[s].res \in {"ok", "InvokeCommandError"}

(***************************************************************************)
(* C14  After setSettings(X) has replaced the stored item, getSettings     *)
(* (getLocalStorage applied to the stored item) returns a document equal   *)
(* to X in every field, as long as nothing else is written.                *)
(***************************************************************************)
C14_SetThenGet ==
  \A s \in Slots :
    (inv[s].pc = "done" /\ inv[s].cmd = "setSettings" /\ inv[s].stored) =>
      /\ getLocalStorage(localStorage, DefaultSettings) = inv[s].arg
      /\ \A k \in SettingsKeys :
           getLocalStorage(localStorage, DefaultSettings)[k] = inv[s].arg[k]

C14_Witness ==
  \E s \in Slots :
    /\ inv[s].pc = "done" /\ inv[s].cmd = "setSettings" /\ inv[s].stored
    /\ inv[s].ctx = "WhisperingContentScript"
    /\ inv[s].arg # DefaultSettings /\ inv[s].arg # inv[s].persisted
    /\ inv[s].arg.currentGlobalShortcut = "" /\ inv[s].arg.apiKey # ""

(***************************************************************************)
(* C15  getSettings.runInWhisperingContentScript never fails and never     *)
(* writes: with the stored item missing, unparseable or rejected by the    *)
(* schema it succeeds with the fixed default document.                     *)
(***************************************************************************)
C15_GetSettingsDefaults ==
  \A s \in Slots :
    (inv[s].pc = "done" /\ inv[s].cmd = "getSettings"
       /\ inv[s].ctx = "WhisperingContentScript") =>
      /\ inv[s].res = "ok"
      /\ localStorage = inv[s].item0
      /\ (inv[s].item0.kind \in {"missing", "corrupt"} \/ ~conforms(inv[s].item0.text)) =>
           inv[s].settings =
             [isPlaySoundEnabled |-> TRUE, isCopyToClipboardEnabled |-> TRUE,
              isPasteContentsOnSuccessEnabled |-> TRUE,
              selectedAudioInputDeviceId |-> "", currentLocalShortcut |-> "space",
              currentGlobalShortcut |-> "", apiKey |-> "", outputLanguage |-> "en"]

C15_Witness ==
  \E s \in Slots :
    /\ inv[s].pc = "done" /\ inv[s].cmd = "getSettings"
    /\ inv[s].ctx = "WhisperingContentScript"
    /\ inv[s].item0.kind = "json" /\ ~conforms(inv[s].item0.text)
    /\ inv[s].settings.isPlaySoundEnabled /\ inv[s].res = "ok"

(***************************************************************************)
(* C16  Whatever the interleaving of peer lookups, at most one page opened *)
(* by a lookup is open at a time, and two lookups that overlapped and both *)
(* succeeded resolved to the same id while no page was closed.             *)
(* Each lookup queries and creates in two separate steps, so two lookups   *)
(* that both query before either creates each open a page.                 *)
(***************************************************************************)
C16_AtMostOnePeerCreated ==
  /\ Cardinality({i \in 1..Len(tabs) : tabs[i].made}) <= 1
  /\ (closes = 0 /\ inv[1].loc.done /\ inv[2].loc.done
        /\ inv[1].loc.res = "ok" /\ inv[2].loc.res = "ok"
        /\ inv[1].overlapped /\ inv[2].overlapped) =>
       inv[1].loc.id = inv[2].loc.id

(***************************************************************************)
(* C17  Every message to the Whispering page is preceded by a peer lookup  *)
(* of its own, and a lookup that succeeds resolves to the id of a page     *)
(* that is open when it answers: a page chrome.tabs.query returned, or the *)
(* page it created because the query returned none.  It never resolves to  *)
(* the id of a page that was closed before the query.                      *)
(***************************************************************************)
TabIds(ts) == {ts[i].id : i \in 1..Len(ts)}

C17_LookupPerSend ==
  \A s \in Slots :
    /\ inv[s].sends <= inv[s].lookups
    /\ inv[s].pc = "send" => inv[s].lookups = inv[s].sends + 1
    /\ (inv[s].loc.done /\ inv[s].loc.res = "ok") =>
         /\ inv[s].loc.id \in TabIds(inv[s].loc.after)
         /\ IF inv[s].loc.seen = <<>>
              THEN inv[s].loc.made
              ELSE ~inv[s].loc.made /\ inv[s].loc.id \in TabIds(inv[s].loc.seen)

\* A lookup resolved to a page, the page was closed, and the next lookup
\* found no page and opened a new one.
C17_Witness ==
  \E s \in Slots :
    /\ inv[s].prevLoc.done /\ inv[s].prevLoc.res = "ok"
    /\ inv[s].loc.done /\ inv[s].loc.res = "ok"
    /\ closes = 1
    /\ inv[s].loc.seen = <<>> /\ inv[s].loc.made
    /\ inv[s].loc.id # inv[s].prevLoc.id
    /\ inv[s].sends = 1

(***************************************************************************)
(* C18  Every command has exactly one native context, and every message    *)
(* that is sent carries the name of the command whose shim sent it and     *)
(* goes to that command's native context: openOptionsPage and              *)
(* getCurrentTabId to the background, getSettings and setSettings to the   *)
(* Whispering page, toggleRecording, cancelRecording and sendErrorToast to *)
(* the global content script.                                              *)
(***************************************************************************)
C18_Target(name) ==
  CASE name \in {"openOptionsPage", "getCurrentTabId"} -> "BackgroundServiceWorker"
    [] name \in {"getSettings", "setSettings"} -> "WhisperingContentScript"
    [] name \in {"toggleRecording", "cancelRecording", "sendErrorToast"} ->
         "GlobalContentScript"
    [] OTHER -> "none"

C18_MessagesGoNative ==
  /\ \A cmd \in CommandNames :
       /\ Cardinality({ctx \in Contexts : member(cmd, ctx) = "runIn"}) = 1
       /\ member(cmd, C18_Target(cmd)) = "runIn"
  /\ \A s \in Slots :
       inv[s].sentName # "none" =>
         /\ inv[s].sentTo = C18_Target(inv[s].sentName)
         /\ inv[s].sends + inv[s].opened >= 1
         \* a shim sends its own command's name; a native handler sends
         \* the name of the command whose shim it calls
         /\ IF <<inv[s].cmd, inv[s].ctx>> \in TableMembers
                 /\ inv[s].ctx # C18_Target(inv[s].cmd)
              THEN inv[s].sentName = inv[s].cmd
              ELSE inv[s].sentName \in {"getSettings", "setSettings", "openOptionsPage"}

C18_Witness ==
  /\ Completed(1) /\ inv[1].cmd = "toggleRecording" /\ inv[1].ctx = "Popup"
  /\ inv[1].sentName = "toggleRecording" /\ inv[1].sentTo = "GlobalContentScript"
  /\ inv[1].tabId = 7 /\ inv[1].res = "ok"

(***************************************************************************)
(* C19  Two toggleRecording invocations that overlap are not serialised:   *)
(* each of them, with a credential configured and every collaborator       *)
(* succeeding, reads the stored state and starts or stops the capture on   *)
(* what it read, so both can read IDLE and both start a capture.           *)
(* In the code neither of them reads the state: each returns at the        *)
(* credential guard (C1), so the interleaving never arises.                *)
(***************************************************************************)
C19_OverlappingTogglesRead ==
  (/\ \A s \in Slots : Finished(s, "toggleRecording") /\ Configured(s)
                         /\ inv[s].overlapped /\ inv[s].res = "ok"
                         /\ inv[s].before \in {"IDLE", "RECORDING"}) =>
    \A s \in Slots : /\ inv[s].readState \in {"IDLE", "RECORDING"}
                     /\ inv[s].starts + inv[s].stops = 1

(***************************************************************************)
(* C20  Every change of the stored RecorderState is IDLE to RECORDING      *)
(* committed by toggleRecording after its capture start, RECORDING to IDLE *)
(* committed by toggleRecording after its capture stop, or a change to     *)
(* IDLE committed by cancelRecording; and only toggleRecording and         *)
(* cancelRecording, run in the global content script, ever read the state. *)
(***************************************************************************)
C20_Commit(s) ==
  /\ inv'[s].stateWrites = inv[s].stateWrites + 1
  /\ inv[s].ctx = "GlobalContentScript"
  /\ \/ /\ inv[s].cmd = "toggleRecording" /\ inv[s].starts = 1
        /\ recorderState = "IDLE" /\ recorderState' = "RECORDING"
     \/ /\ inv[s].cmd = "toggleRecording" /\ inv[s].stops = 1
        /\ recorderState = "RECORDING" /\ recorderState' = "IDLE"
     \/ /\ inv[s].cmd = "cancelRecording"
        /\ recorderState' = "IDLE"

C20_ReadersAndWriters ==
  \A s \in Slots :
    (inv[s].readState # "none" \/ inv[s].stateWrites > 0) =>
      /\ inv[s].cmd \in {"toggleRecording", "cancelRecording"}
      /\ inv[s].ctx = "GlobalContentScript"

C20_StateChanges ==
  /\ []C20_ReadersAndWriters
  /\ [][recorderState' # recorderState => \E s \in Slots : C20_Commit(s)]_vars

C20_Witness ==
  \E s \in Slots :
    /\ Finished(s, "cancelRecording") /\ inv[s].ctx = "GlobalContentScript"
    /\ inv[s].before = "RECORDING" /\ inv[s].readState = "RECORDING"
    /\ inv[s].stateWrites = 1 /\ recorderState = "IDLE"
    /\ toastItem = "toast"

(***************************************************************************)
(* C21  A toggleRecording invoked with a credential configured while the   *)
(* stored RecorderState is neither IDLE nor RECORDING, and returning       *)
(* success, has found that state and done nothing: no capture start or     *)
(* stop, no cue, no prompt, no message, the stored state unchanged.        *)
(* In the code the call never reads the state: it prompts and sends        *)
(* openOptionsPage (C1).                                                   *)
(***************************************************************************)
C21_InvalidStateNoOp ==
  \A s \in Slots :
    (Finished(s, "toggleRecording") /\ Configured(s) /\ inv[s].res = "ok"
       /\ inv[s].before \notin {"IDLE", "RECORDING"}) =>
      /\ inv[s].readState = inv[s].before
      /\ inv[s].starts = 0 /\ inv[s].stops = 0 /\ inv[s].cues = <<>>
      /\ inv[s].alerts = 0 /\ inv[s].opened = 0
      /\ recorderState = inv[s].before

(***************************************************************************)
(* C23  A successful toggleRecording (credential configured) acts on the   *)
(* persisted settings: from IDLE it starts the capture on the persisted    *)
(* selected device id as the fallback left it and plays the start cue      *)
(* exactly if the persisted sound flag is set; from RECORDING it plays the *)
(* stop cue exactly if that flag is set.                                   *)
(* In the code `settings` is a literal, not the persisted document (C1).   *)
(***************************************************************************)
C23_TogglePersistedSettings ==
  \A s \in Slots :
    (Finished(s, "toggleRecording") /\ Configured(s) /\ inv[s].res = "ok") =>
      /\ inv[s].before = "IDLE" =>
           /\ inv[s].starts = 1
           /\ inv[s].startedOn =
                getLocalStorage(localStorage, DefaultSettings).selectedAudioInputDeviceId
           /\ inv[s].cues = IF inv[s].persisted.isPlaySoundEnabled
                              THEN <<"start">> ELSE <<>>
      /\ inv[s].before = "RECORDING" =>
           /\ inv[s].stops = 1
           /\ inv[s].cues = IF inv[s].persisted.isPlaySoundEnabled
                              THEN <<"stop">> ELSE <<>>

(***************************************************************************)
(* C22 as stated: in every cancelRecording invocation that has ended, the  *)
(* cancel cue was played exactly if the state read was RECORDING and the   *)
(* persisted sound flag is set, and the cancellation was requested         *)
(* whatever the state read.                                                *)
(***************************************************************************)
C22_CueIffRecording ==
  \A s \in Slots :
    (Finished(s, "cancelRecording") /\ inv[s].readState # "none") =>
      /\ inv[s].cancels = 1
      /\ inv[s].cues = <<"cancel">> <=>
           (inv[s].readState = "RECORDING" /\ inv[s].persisted.isPlaySoundEnabled)

(***************************************************************************)
(* C22, amended: a cancelRecording invocation reads the state before it    *)
(* requests the cancellation, requests it whatever state it read, plays    *)
(* the cancel cue exactly if that request succeeded, the state read was    *)
(* RECORDING and the persisted sound flag is set, and commits IDLE only    *)
(* after the request succeeded; a failed step ends the invocation before   *)
(* the later ones.                                                         *)
(***************************************************************************)
C22_CancelOrder ==
  \A s \in Slots :
    inv[s].cmd = "cancelRecording" =>
      /\ inv[s].cancels <= 1 /\ inv[s].stateWrites <= 1
      /\ inv[s].cancels = 1 => inv[s].readState # "none"
      /\ (inv[s].pc \in {"c_set", "done"} /\ inv[s].readState # "none") =>
           inv[s].cancels = 1
      /\ inv[s].pc \in {"c_cancel", "c_set"} =>
           inv[s].stateWrites = 0 /\ recorderState = inv[s].before
      /\ inv[s].pc = "c_cancel" => inv[s].cancels = 0 /\ inv[s].cues = <<>>
      /\ inv[s].stateWrites = 1 =>
           inv[s].cancels = 1 /\ inv[s].res = "ok" /\ recorderState = "IDLE"
      /\ inv[s].cues =
           IF /\ inv[s].cancels = 1 /\ inv[s].res # "RecorderError"
              /\ inv[s].readState = "RECORDING"
              /\ inv[s].persisted.isPlaySoundEnabled
             THEN <<"cancel">> ELSE <<>>

C22_Witness ==
  \E s \in Slots :
    /\ Finished(s, "cancelRecording") /\ inv[s].res = "ok"
    /\ inv[s].readState = "IDLE" /\ inv[s].persisted.isPlaySoundEnabled
    /\ inv[s].cancels = 1 /\ inv[s].cues = <<>> /\ inv[s].stateWrites = 1
    /\ calls = 2

(***************************************************************************)
(* C24  Whenever no invocation is in flight, after any sequence of         *)
(* toggleRecording and cancelRecording invocations one after another,      *)
(* failed ones included, a capture is in flight exactly if the stored      *)
(* RecorderState is RECORDING.                                             *)
(* cancelRecording ends the capture and only then commits IDLE: when that  *)
(* commit fails the stored state stays RECORDING with no capture.          *)
(***************************************************************************)
C24_CaptureIffRecording ==
  Quiet => (capturing <=> recorderState = "RECORDING")

(***************************************************************************)
(* C26  transcribeRecording never overwrites a recorder state of           *)
(* RECORDING: a step of a transcribeRecording call taken while the state   *)
(* is RECORDING leaves it RECORDING, and the only assignments the calls    *)
(* make are LOADING at the start and IDLE in the final Effect.all, each    *)
(* made while the state is not RECORDING, whatever the recorder does in    *)
(* between.                                                                *)
(***************************************************************************)
C26_TrStep(p) ==
  /\ tr'[p] # tr[p]
  /\ appRecorderState = "RECORDING" => appRecorderState' = "RECORDING"
  /\ appRecorderState' # appRecorderState =>
       \/ /\ tr[p].pc = "tr_begin" /\ appRecorderState' = "LOADING"
          /\ tr'[p].setLoading
       \/ /\ tr[p].pc = "tr_finish" /\ appRecorderState' = "IDLE"
          /\ tr'[p].setIdle
  /\ (tr'[p].setLoading /\ ~tr[p].setLoading) =>
       appRecorderState # "RECORDING" /\ appRecorderState' = "LOADING"
  /\ (tr'[p].setIdle /\ ~tr[p].setIdle) =>
       appRecorderState # "RECORDING" /\ appRecorderState' = "IDLE"

C26_KeepsRecording ==
  [][tr' # tr => \E p \in Procs : C26_TrStep(p)]_vars

\* A call that began and succeeded while the recorder was recording.
C26_Witness ==
  \E p \in Procs :
    /\ tr[p].pc = "done" /\ tr[p].out = "ok"
    /\ ~tr[p].setLoading /\ ~tr[p].setIdle /\ tr[p].synced
    /\ appRecorderState = "RECORDING"

(***************************************************************************)
(* C27  Once a transcribeRecording call that assigned LOADING has          *)
(* completed, by whatever outcome, and no other call is in progress, the   *)
(* recorder state is IDLE or RECORDING and the recording's                 *)
(* transcriptionStatus is not TRANSCRIBING.                                *)
(* Only the success path assigns IDLE (lines 126-130): a call that ends    *)
(* because the recording is not found, the transcription fails or a        *)
(* database request fails leaves LOADING.                                  *)
(***************************************************************************)
C27_LoadingEnds ==
  \A p \in Procs :
    (/\ tr[p].pc = "done" /\ tr[p].setLoading
     /\ \A q \in Procs : tr[q].pc \in {"idle", "done"}) =>
      /\ appRecorderState \in {"IDLE", "RECORDING"}
      /\ recordingsDb[tr[p].id].transcriptionStatus # "TRANSCRIBING"
      /\ recordings[tr[p].id].transcriptionStatus # "TRANSCRIBING"

====
